---- MODULE Spec2Model ----
(***************************************************************************)
(* Model of bugbug/code_search/searchfox_api.py: the definition            *)
(* classifier (search), the scope resolver (get_line_number,               *)
(* get_functions, find_function_for_line) and the resolution facade        *)
(* (FunctionSearchSearchfoxAPI).                                           *)
(*                                                                         *)
(* Python strings are sequences of one-character strings, so that `in`,    *)
(* str.index, str.startswith, str.endswith and the \b regular expression   *)
(* are computed character by character.  Python's None is the integer -1   *)
(* wherever the other values are non-negative integers.                    *)
(***************************************************************************)
EXTENDS Integers, Sequences, FiniteSets, TLC

VARIABLES
    pc,            \* position of the call in progress
    outcome,       \* "running", "returned" or "raised"
    symbol_name,   \* search: the queried symbol
    results,       \* search: the parsed index response, type_ -> hits
    k,             \* search: number of hits already visited
    definitions,   \* search: accepted hits; definitions_to_results: its argument
    paths,         \* search: list(set(...)) of the accepted paths
    queried,       \* paths for which the rendered file view was requested
    functions,     \* scopes returned by get_functions
    view,          \* remote rendered file view, path -> [status, file]
    raw,           \* remote raw file content, path -> lines, or Missing
    path,          \* get_function_by_line: the path argument
    line,          \* get_function_by_line: the line argument
    selected_function, \* find_function_for_line: the loop's selection
    j,             \* loop index of find_function_for_line / definitions_to_results
    result,        \* definitions_to_results: the list of Function built so far
    reads,         \* calls of the raw-file reader, as <<path, start, end>>
    elements,      \* get_line_number: the iterable of the current call
    position,      \* get_line_number: "start" or "end"
    root,          \* get_line_number: the iterable of the outermost call
    line_number    \* get_line_number: the returned value

vars == <<pc, outcome, symbol_name, results, k, definitions, paths, queried,
          functions, view, raw, path, line, selected_function, j, result,
          reads, elements, position, root, line_number>>

(***************************************************************************)
(* Bounds                                                                  *)
(***************************************************************************)
MaxFrags == 3     \* fragments concatenated into a matched line
MaxHits == 2      \* hits of an index response in the facade runs
MaxLine == 3      \* lines of a rendered file
MaxDepth == 2     \* nesting depth of the scope annotations
MaxKids == 2      \* children of an element in the get_line_number runs

None == -1

(***************************************************************************)
(* Python string operations                                                *)
(***************************************************************************)
Min(a, b) == IF a < b THEN a ELSE b

\* s[i:i+len(pat)] == pat, with i a 0-based offset
MatchAt(s, pat, i) ==
    /\ i + Len(pat) <= Len(s)
    /\ \A n \in 1..Len(pat) : s[i + n] = pat[n]

\* s.find(pat): offset of the first occurrence, -1 when there is none
StrFind(s, pat) ==
    LET occ == {i \in 0..Len(s) : MatchAt(s, pat, i)}
    IN  IF occ = {} THEN -1 ELSE CHOOSE i \in occ : \A i2 \in occ : i <= i2

\* pat in s
Contains(s, pat) == \E i \in 0..Len(s) : MatchAt(s, pat, i)

\* s.index(pat), used by the code only after `pat in s`
StrIndex(s, pat) == StrFind(s, pat)

StartsWith(s, pat) == MatchAt(s, pat, 0)

EndsWith(s, pat) == Len(pat) <= Len(s) /\ MatchAt(s, pat, Len(s) - Len(pat))

WordChars ==
    {"a", "b", "c", "d", "e", "f", "g", "h", "i", "j", "k", "l", "m",
     "n", "o", "p", "q", "r", "s", "t", "u", "v", "w", "x", "y", "z",
     "A", "B", "C", "D", "E", "F", "G", "H", "I", "J", "K", "L", "M",
     "N", "O", "P", "Q", "R", "S", "T", "U", "V", "W", "X", "Y", "Z",
     "0", "1", "2", "3", "4", "5", "6", "7", "8", "9", "_"}

\* is the character at 0-based offset i of s a word character (\w)
IsWordAt(s, i) == i >= 0 /\ i < Len(s) /\ s[i + 1] \in WordChars

\* the regular expression assertion \b at offset i
WordBoundary(s, i) == IsWordAt(s, i - 1) # IsWordAt(s, i)

\* re.compile(rf"\b{symbol_name}\b").search(line): offset of the leftmost
\* match or None.  The symbol is an identifier, so it matches itself.
symbol_word_position(sym, ln) ==
    LET occ == {i \in 0..Len(ln) : /\ MatchAt(ln, sym, i)
                                   /\ WordBoundary(ln, i)
                                   /\ WordBoundary(ln, i + Len(sym))}
    IN  IF occ = {} THEN None ELSE CHOOSE i \in occ : \A i2 \in occ : i <= i2

RECURSIVE Concat(_)
Concat(ss) == IF ss = <<>> THEN <<>> ELSE Head(ss) \o Concat(Tail(ss))

\* sequences over S of length at most n
SeqsUpTo(S, n) == UNION {[1..m -> S] : m \in 0..n}

Range(s) == {s[n] : n \in 1..Len(s)}

(***************************************************************************)
(* String literals of the code                                             *)
(***************************************************************************)
lit_Definitions == <<"D", "e", "f", "i", "n", "i", "t", "i", "o", "n", "s">>
\* "fn {symbol_name}" of line 152 is not an f-string: the braces are literal
lit_fn_symbol_name ==
    <<"f", "n", " ", "{", "s", "y", "m", "b", "o", "l", "_", "n", "a", "m", "e", "}">>
lit_pipe == <<"|">>
lit_paren == <<"(">>
lit_close == <<")">>
lit_function == <<"f", "u", "n", "c", "t", "i", "o", "n">>
lit_function_sp == <<"f", "u", "n", "c", "t", "i", "o", "n", " ">>
lit_arrow == <<"=", ">">>
lit_deref == <<"-", ">">>
lit_def_sp == <<"d", "e", "f", " ">>
lit_lambda == <<"l", "a", "m", "b", "d", "a">>

\* bugbug.repository.SOURCE_CODE_TYPES_TO_EXT, the groups search uses
ExtRust == {<<".", "r", "s">>}
ExtJavascript ==
    {<<".", "j", "s">>, <<".", "j", "s", "m">>, <<".", "s", "j", "s">>,
     <<".", "m", "j", "s">>, <<".", "j", "s", "x">>}
ExtC ==
    {<<".", "c">>, <<".", "c", "p", "p">>, <<".", "c", "c">>,
     <<".", "c", "x", "x">>, <<".", "h">>, <<".", "h", "h">>,
     <<".", "h", "p", "p">>, <<".", "h", "x", "x">>}
ExtObjC == {<<".", "m">>, <<".", "m", "m">>}
ExtPython == {<<".", "p", "y">>}

HasExt(p, exts) == \E ext \in exts : EndsWith(p, ext)

(***************************************************************************)
(* search: the definition classifier                                       *)
(***************************************************************************)
\* the bucket test without its startswith half
IsDefinitionsBucket_NoPrefix(sub_type, sym) ==
    EndsWith(sub_type, sym \o lit_close)

\* lines 130-132: the bucket test on a key of results[type_]
IsDefinitionsBucket(sub_type, sym) ==
    /\ StartsWith(sub_type, lit_Definitions)
    /\ EndsWith(sub_type, sym \o lit_close)

\* pat in line and symbol_word_position is not None
\* and symbol_word_position < line.index(pat)
SymbolBefore(ln, pos, pat) ==
    /\ Contains(ln, pat)
    /\ pos # None
    /\ pos < StrIndex(ln, pat)

\* line 152-156
AcceptsRust(sym, ln, pos) ==
    \/ Contains(ln, lit_fn_symbol_name)
    \/ SymbolBefore(ln, pos, lit_pipe)

\* the Javascript rule with "=>" looked for anywhere in the line
AcceptsJavascript_AnyArrow(sym, ln, pos) ==
    \/ Contains(ln, sym \o lit_paren)
    \/ Contains(ln, lit_function_sp \o sym)
    \/ SymbolBefore(ln, pos, lit_function)
    \/ Contains(ln, lit_arrow)

\* lines 165-178
AcceptsJavascript(sym, ln, pos) ==
    \/ Contains(ln, sym \o lit_paren)
    \/ Contains(ln, lit_function_sp \o sym)
    \/ SymbolBefore(ln, pos, lit_function)
    \/ SymbolBefore(ln, pos, lit_arrow)

\* lines 188-192
AcceptsC(sym, ln, pos) ==
    \/ Contains(ln, sym \o lit_paren)
    \/ SymbolBefore(ln, pos, lit_deref)

\* lines 201-205
AcceptsPython(sym, ln, pos) ==
    \/ Contains(ln, lit_def_sp \o sym \o lit_paren)
    \/ SymbolBefore(ln, pos, lit_lambda)

\* lines 148-209: the if/elif chain over the extension groups
Accepts(sym, value) ==
    LET ln == value.line
        pos == symbol_word_position(sym, ln)
    IN  IF HasExt(value.path, ExtRust) THEN AcceptsRust(sym, ln, pos)
        ELSE IF HasExt(value.path, ExtJavascript) THEN AcceptsJavascript(sym, ln, pos)
        ELSE IF HasExt(value.path, ExtC \cup ExtObjC) THEN AcceptsC(sym, ln, pos)
        ELSE IF HasExt(value.path, ExtPython) THEN AcceptsPython(sym, ln, pos)
        ELSE TRUE

\* lines 130-209: does the loop body append this hit to definitions
AppendsDefinition(sym, value) ==
    /\ IsDefinitionsBucket(value.sub_type, sym)
    /\ Contains(value.line, sym)
    /\ Accepts(sym, value)

\* lines 125-133: the hits in the order the loops visit them; a hit is
\* [sub_type, path, line], sub_type being the key of the bucket it is in
VisitedTypes == <<"normal", "thirdparty", "test">>
Visited(res) ==
    Concat([n \in 1..Len(VisitedTypes) |->
              IF VisitedTypes[n] \in DOMAIN res THEN res[VisitedTypes[n]] ELSE <<>>])

(***************************************************************************)
(* The rendered file view and the scope resolver                           *)
(***************************************************************************)
\* An element is [sym, id, kids]: sym is the data-nesting-sym attribute
\* (NoSym when the element has none), id the N of id="line-N".
NoSym == <<>>
LineEl(n) == [sym |-> NoSym, id |-> n, kids |-> <<>>]
ScopeEl(s, kids) == [sym |-> s, id |-> 0, kids |-> kids]

\* get_line_number raising (StopIteration or ValueError on an empty iterable)
Raise == -2

\* lines 28-37
RECURSIVE get_line_number(_, _)
get_line_number(els, pos) ==
    IF els = <<>> THEN Raise
    ELSE LET element == IF pos = "start" THEN els[1] ELSE els[Len(els)]
         IN  IF element.sym # NoSym
             THEN get_line_number(element.kids, pos)
             ELSE element.id

\* lxml iterdescendants: the descendants in document order
RECURSIVE Descendants(_)
Descendants(els) ==
    IF els = <<>> THEN <<>>
    ELSE <<Head(els)>> \o Descendants(Head(els).kids) \o Descendants(Tail(els))

\* symbol_name=None of get_functions
NoSymbol == <<>>

\* the filter without the test on the name
IsSymWrap_AnyName(element, sym) == element.sym # NoSym

\* lines 61-65: the filter on the descendants of #file
IsSymWrap(element, sym) ==
    /\ element.sym # NoSym
    /\ (sym = NoSymbol \/ Contains(element.sym, sym))

\* lines 69-77: the dictionary built for one sym_wrap
ScopeOf(sym_wrap, p) ==
    [name |-> Tail(sym_wrap.sym),
     path |-> p,
     start |-> get_line_number(sym_wrap.kids, "start"),
     end |-> get_line_number(sym_wrap.kids, "end")]

\* get_functions without the 404 case: raise_for_status raises
get_functions_No404(p, sym) ==
    IF view[p].status # 200 THEN [raised |-> TRUE, functions |-> <<>>]
    ELSE LET sym_wraps == SelectSeq(Descendants(view[p].file),
                                    LAMBDA e : IsSymWrap(e, sym))
             fs == [n \in 1..Len(sym_wraps) |-> ScopeOf(sym_wraps[n], p)]
         IN  [raised |-> \E n \in 1..Len(fs) :
                             fs[n].start = Raise \/ fs[n].end = Raise,
              functions |-> fs]

\* lines 41-79: [raised, functions]
get_functions(p, sym) ==
    IF view[p].status = 404 THEN [raised |-> FALSE, functions |-> <<>>]
    ELSE IF view[p].status # 200 THEN [raised |-> TRUE, functions |-> <<>>]
    ELSE LET sym_wraps == SelectSeq(Descendants(view[p].file),
                                    LAMBDA e : IsSymWrap(e, sym))
             fs == [n \in 1..Len(sym_wraps) |-> ScopeOf(sym_wraps[n], p)]
         IN  [raised |-> \E n \in 1..Len(fs) :
                             fs[n].start = Raise \/ fs[n].end = Raise,
              functions |-> fs]

\* selected_function = None
NoFunction == [name |-> <<>>, path |-> <<>>, start |-> None, end |-> None]

\* the selection with <= in place of <: the last of equal starts wins
Selects_LastSeen(sel, function, ln) ==
    /\ function.start <= ln
    /\ ln <= function.end
    /\ (sel = NoFunction \/ sel.start <= function.start)

\* lines 88-92: does the loop replace its selection by function
Selects(sel, function, ln) ==
    /\ function.start <= ln
    /\ ln <= function.end
    /\ (sel = NoFunction \/ sel.start < function.start)

(***************************************************************************)
(* The raw-file reader and the source extractor                            *)
(***************************************************************************)
Digits == <<"1", "2", "3", "4", "5", "6", "7", "8", "9">>

\* the text of line n of the file at p
LineText(p, n) == p \o <<":">> \o <<Digits[n]>>

\* the text get_file returns for p, as its lines
FileOf(p) == [n \in 1..MaxLine |-> LineText(p, n)]

\* searchfox_data.extract_source on the lines of the file: the lines
\* numbered in [start, end)
extract_source(file, start, end) ==
    [n \in 1..(Min(end - 1, Len(file)) - start + 1) |-> file[start + n - 1]]

\* "\n".join(source)
RECURSIVE Join(_)
Join(source) ==
    IF source = <<>> THEN <<>>
    ELSE IF Len(source) = 1 THEN source[1]
    ELSE source[1] \o <<"\n">> \o Join(Tail(source))

\* the range end without the one-line case
RangeEnd_AlwaysPlusOne(definition) == definition.end + 1

\* lines 228-230: the range end handed to extract_source
RangeEnd(definition) ==
    IF definition.end # definition.start
    THEN definition.end + 1
    ELSE definition.end

\* lines 239-244
Function(definition, source) ==
    [name |-> definition.name,
     start |-> definition.start,
     path |-> definition.path,
     source |-> Join(source)]

(***************************************************************************)
(* Inputs                                                                  *)
(***************************************************************************)
sym_foo == <<"f", "o", "o">>
sym_handler == <<"h", "a", "n", "d", "l", "e", "r">>
Symbols == {sym_foo, sym_handler}

p_rs == <<"a", ".", "r", "s">>
p_js == <<"a", ".", "j", "s">>
p_jsm == <<"b", ".", "j", "s", "m">>
p_cpp == <<"a", ".", "c", "p", "p">>
p_m == <<"a", ".", "m">>
p_py == <<"a", ".", "p", "y">>
p_txt == <<"a", ".", "t", "x", "t">>
Paths == {p_rs, p_js, p_jsm, p_cpp, p_m, p_py, p_txt}

key_foo ==
    <<"D", "e", "f", "i", "n", "i", "t", "i", "o", "n", "s", " ", "(", "f",
      "o", "o", ")">>
key_handler ==
    <<"D", "e", "f", "i", "n", "i", "t", "i", "o", "n", "s", " ", "(", "h",
      "a", "n", "d", "l", "e", "r", ")">>
key_barfoo ==
    <<"D", "e", "f", "i", "n", "i", "t", "i", "o", "n", "s", " ", "(", "b",
      "a", "r", "f", "o", "o", ")">>
key_ns_foo ==
    <<"D", "e", "f", "i", "n", "i", "t", "i", "o", "n", "s", " ", "(", "n",
      "s", ":", ":", "f", "o", "o", ")">>
key_uses_foo == <<"U", "s", "e", "s", " ", "(", "f", "o", "o", ")">>
Keys == {key_foo, key_handler, key_barfoo, key_uses_foo}

\* the pieces a matched line is put together from
Fragments ==
    {sym_foo, <<" ">>, lit_paren, lit_pipe, lit_arrow, <<"f", "n", " ">>,
     lit_function}

line_handler ==
    <<"c", "o", "n", "s", "t", " ", "h", "a", "n", "d", "l", "e", "r", " ",
      "=", " ", "x", " ", "=", ">", " ", "x", ".", "f", "o", "o">>
line_c ==
    <<"i", "n", "t", " ", "f", "o", "o", "(", "i", "n", "t", " ", "x", ")",
      " ", "{", " ", "r", "e", "t", "u", "r", "n", " ", "f", "o", "o", "(",
      "x", ")", ";", " ", "}">>
line_fn_literal ==
    <<"f", "n", " ", "{", "s", "y", "m", "b", "o", "l", "_", "n", "a", "m",
      "e", "}", " ", "f", "o", "o">>
line_def == <<"d", "e", "f", " ", "f", "o", "o", "(", "x", ")", ":">>
line_lambda ==
    <<"f", "o", "o", " ", "=", " ", "l", "a", "m", "b", "d", "a", " ", "x",
      ":", " ", "x">>
line_deref == <<"f", "o", "o", "-", ">", "x">>
line_barfoo ==
    <<"v", "o", "i", "d", " ", "b", "a", "r", "f", "o", "o", "(", "i", "n",
      "t", " ", "x", ")">>
ExtraLines ==
    {line_handler, line_c, line_fn_literal, line_def, line_lambda,
     line_deref, line_barfoo}

Lines == {Concat(fs) : fs \in SeqsUpTo(Fragments, MaxFrags)} \cup ExtraLines

Hit(sub_type, p, ln) == [sub_type |-> sub_type, path |-> p, line |-> ln]

\* data-nesting-sym attributes
attr_foo == <<"#">> \o sym_foo
attr_bar == <<"#", "b", "a", "r">>
attr_xfoo == <<"#", "x", "f", "o", "o">>
Syms == {attr_foo, attr_bar}

\* the rendered views of a file of lines lo..hi: every line once and in
\* order, the scopes named from syms and nested at most d deep, every scope
\* holding a line
RECURSIVE Forests(_, _, _, _)
Forests(lo, hi, d, syms) ==
    IF lo > hi THEN {<<>>}
    ELSE {<<LineEl(lo)>> \o rest : rest \in Forests(lo + 1, hi, d, syms)}
         \cup
         (IF d = 0 THEN {}
          ELSE UNION {{<<ScopeEl(s, kids)>> \o rest :
                          s \in syms,
                          kids \in Forests(lo, m, d - 1, syms),
                          rest \in Forests(m + 1, hi, d, syms)} : m \in lo..hi})

\* the trees of elements at most d deep, their lines not yet numbered, in
\* which at most one child of an element is a named scope; a scope may be
\* without children
RECURSIVE Shapes(_)
Shapes(d) ==
    IF d = 0 THEN {LineEl(0)}
    ELSE LET sub == Shapes(d - 1)
             rows == {[n \in 1..m |-> LineEl(0)] : m \in 0..MaxKids}
             kids == rows \cup
                     UNION {{[r EXCEPT ![n] = e] :
                                n \in 1..Len(r), e \in sub \ {LineEl(0)}} :
                            r \in rows}
         IN  sub \cup {ScopeEl(attr_foo, ks) : ks \in kids}

\* els with its lines numbered from n on in document order, and the
\* number of the line after them
RECURSIVE Number(_, _)
Number(els, n) ==
    IF els = <<>> THEN [els |-> <<>>, next |-> n]
    ELSE IF Head(els).sym = NoSym
    THEN LET r == Number(Tail(els), n + 1)
         IN  [els |-> <<LineEl(n)>> \o r.els, next |-> r.next]
    ELSE LET ks == Number(Head(els).kids, n)
             r == Number(Tail(els), ks.next)
         IN  [els |-> <<ScopeEl(Head(els).sym, ks.els)>> \o r.els,
              next |-> r.next]

\* a reader that fails for the paths in missing
RawWorld(missing) ==
    [p \in Paths |-> [ok |-> p \notin missing, lines |-> FileOf(p)]]

\* the hits of a facade run, each with the type_ it is listed under
TaggedHits ==
    {<<"normal", Hit(key_foo, p_js, lit_function_sp \o sym_foo)>>,
     <<"normal", Hit(key_foo, p_js, sym_foo \o lit_paren)>>,
     <<"thirdparty", Hit(key_barfoo, p_cpp, sym_foo)>>,
     <<"test", Hit(key_ns_foo, p_py, lit_def_sp \o sym_foo \o lit_paren)>>,
     <<"generated", Hit(key_foo, p_rs, sym_foo \o lit_pipe)>>}

\* the members of S in some order
RECURSIVE SeqOf(_)
SeqOf(S) ==
    IF S = {} THEN <<>>
    ELSE LET x == CHOOSE y \in S : TRUE IN <<x>> \o SeqOf(S \ {x})

\* the response that lists the tagged hits ths, grouped by type_
Response(ths) ==
    [t \in {ths[n][1] : n \in 1..Len(ths)} |->
        LET own == SelectSeq(ths, LAMBDA th : th[1] = t)
        IN  [n \in 1..Len(own) |-> own[n][2]]]

\* the orders list(set(...)) may produce
Orders(S) == {o \in [1..Cardinality(S) -> S] : Range(o) = S}

(***************************************************************************)
(* Initial states                                                          *)
(***************************************************************************)
\* the view every path has in the classifier runs
SearchFile ==
    <<ScopeEl(attr_xfoo, <<LineEl(1)>>)>> \o [n \in 1..(MaxLine - 1) |-> LineEl(n + 1)]

NoCall ==
    /\ outcome = "running"
    /\ k = 0
    /\ definitions = <<>>
    /\ paths = <<>>
    /\ queried = <<>>
    /\ functions = <<>>
    /\ selected_function = NoFunction
    /\ j = 1
    /\ result = <<>>
    /\ reads = <<>>
    /\ line_number = None

NoSearch == symbol_name = NoSymbol /\ results = <<>>
NoByLine == path = <<>> /\ line = 0
NoLineNumber == elements = <<>> /\ position = "start" /\ root = <<>>

\* search on a response of one hit, over every line, key and path
InitSearch ==
    /\ pc = "search"
    /\ symbol_name \in Symbols
    /\ results \in {Response(<<<<"normal", Hit(key, p, ln)>>>>) :
                       key \in Keys, p \in Paths, ln \in Lines}
    /\ view = [p \in Paths |-> [status |-> 200, file |-> SearchFile]]
    /\ raw = RawWorld({})
    /\ NoCall /\ NoByLine /\ NoLineNumber

\* get_function_by_name on a response of at most MaxHits hits, the scopes
\* of the files not nested
InitName ==
    /\ pc = "search"
    /\ symbol_name = sym_foo
    /\ results \in {Response(SeqOf(ths)) :
                       ths \in {T \in SUBSET TaggedHits : Cardinality(T) <= MaxHits}}
    /\ view \in {[p \in Paths |->
                    [status |-> IF p = p_py THEN st ELSE 200, file |-> file]] :
                    st \in {200, 404, 500},
                    file \in Forests(1, MaxLine, 1, Syms)}
    /\ raw \in {RawWorld({}), RawWorld({p_py})}
    /\ NoCall /\ NoByLine /\ NoLineNumber

\* get_function_by_line on any view of the file
InitLine ==
    /\ pc = "find_function_for_line"
    /\ path = p_js
    /\ line \in 1..(MaxLine + 1)
    /\ view \in {[p \in Paths |-> [status |-> st, file |-> file]] :
                    st \in {200}, file \in Forests(1, MaxLine, MaxDepth, {attr_foo})}
               \cup
               {[p \in Paths |-> [status |-> st, file |-> <<>>]] : st \in {404, 500}}
    /\ raw \in {RawWorld({}), RawWorld({p_js})}
    /\ NoCall /\ NoSearch /\ NoLineNumber

\* get_line_number on the children of a named-scope element
InitTree ==
    /\ pc = "get_line_number"
    /\ root \in {Number(e.kids, 1).els :
                    e \in {e2 \in Shapes(MaxDepth + 1) : e2.sym # NoSym}}
    /\ elements = root
    /\ position \in {"start", "end"}
    /\ view = [p \in Paths |-> [status |-> 404, file |-> <<>>]]
    /\ raw = RawWorld({})
    /\ NoCall /\ NoSearch /\ NoByLine

Init == InitName \/ InitLine

(***************************************************************************)
(* search, lines 103-213                                                   *)
(***************************************************************************)
\* lines 133-209: one pass of the loop body, on the next hit visited
SearchValue ==
    /\ pc = "search"
    /\ k < Len(Visited(results))
    /\ LET value == Visited(results)[k + 1]
       IN  definitions' = IF AppendsDefinition(symbol_name, value)
                          THEN Append(definitions, value)
                          ELSE definitions
    /\ k' = k + 1
    /\ UNCHANGED <<pc, outcome, symbol_name, results, paths, queried,
                   functions, view, raw, path, line, selected_function, j,
                   result, reads, elements, position, root, line_number>>

\* line 211, once the loops are over: a set has no order of its own
SearchPaths ==
    /\ pc = "search"
    /\ k = Len(Visited(results))
    /\ paths' \in Orders({definitions[n].path : n \in 1..Len(definitions)})
    /\ pc' = "search_get_functions"
    /\ UNCHANGED <<outcome, symbol_name, results, k, definitions, queried,
                   functions, view, raw, path, line, selected_function, j,
                   result, reads, elements, position, root, line_number>>

\* line 213: get_functions for the next path, its scopes added to the sum
SearchGetFunctions ==
    /\ pc = "search_get_functions"
    /\ paths # <<>>
    /\ LET r == get_functions(Head(paths), symbol_name)
       IN  /\ queried' = Append(queried, Head(paths))
           /\ IF r.raised
              THEN /\ pc' = "done"
                   /\ outcome' = "raised"
                   /\ UNCHANGED <<functions, paths>>
              ELSE /\ functions' = functions \o r.functions
                   /\ paths' = Tail(paths)
                   /\ UNCHANGED <<pc, outcome>>
    /\ UNCHANGED <<symbol_name, results, k, definitions, view, raw, path,
                   line, selected_function, j, result, reads, elements,
                   position, root, line_number>>

\* lines 213 and 266-271: search returns, get_function_by_name hands the
\* scopes to definitions_to_results
SearchReturn ==
    /\ pc = "search_get_functions"
    /\ paths = <<>>
    /\ definitions' = functions
    /\ j' = 1
    /\ pc' = "definitions_to_results"
    /\ UNCHANGED <<outcome, symbol_name, results, k, paths, queried,
                   functions, view, raw, path, line, selected_function,
                   result, reads, elements, position, root, line_number>>

(***************************************************************************)
(* find_function_for_line, lines 82-99, and get_function_by_line, 249-261  *)
(***************************************************************************)
\* line 83
FindGetFunctions ==
    /\ pc = "find_function_for_line"
    /\ LET r == get_functions(path, NoSymbol)
       IN  /\ queried' = Append(queried, path)
           /\ IF r.raised
              THEN /\ pc' = "done"
                   /\ outcome' = "raised"
                   /\ UNCHANGED functions
              ELSE /\ functions' = r.functions
                   /\ pc' = "find_loop"
                   /\ UNCHANGED outcome
    /\ j' = 1
    /\ selected_function' = NoFunction
    /\ UNCHANGED <<symbol_name, results, k, definitions, paths, view, raw,
                   path, line, result, reads, elements, position, root,
                   line_number>>

\* lines 87-97: one pass of the loop
FindLoop ==
    /\ pc = "find_loop"
    /\ j <= Len(functions)
    /\ selected_function' = IF Selects(selected_function, functions[j], line)
                            THEN functions[j]
                            ELSE selected_function
    /\ j' = j + 1
    /\ UNCHANGED <<pc, outcome, symbol_name, results, k, definitions, paths,
                   queried, functions, view, raw, path, line, result, reads,
                   elements, position, root, line_number>>

\* lines 99 and 257-261
ByLineReturn ==
    /\ pc = "find_loop"
    /\ j > Len(functions)
    /\ IF selected_function # NoFunction
       THEN /\ definitions' = <<selected_function>>
            /\ pc' = "definitions_to_results"
            /\ UNCHANGED outcome
       ELSE /\ pc' = "done"
            /\ outcome' = "returned"
            /\ UNCHANGED definitions
    /\ j' = 1
    /\ UNCHANGED <<symbol_name, results, k, paths, queried, functions, view,
                   raw, path, line, selected_function, result, reads,
                   elements, position, root, line_number>>

(***************************************************************************)
(* definitions_to_results, lines 221-247                                   *)
(***************************************************************************)
\* the loop body with the failure of the reader caught: an empty source
DefinitionToResult_Swallow ==
    /\ pc = "definitions_to_results"
    /\ j <= Len(definitions)
    /\ LET definition == definitions[j]
           file == raw[definition.path]
       IN  /\ reads' = Append(reads, [path |-> definition.path,
                                      start |-> definition.start,
                                      end |-> RangeEnd(definition)])
           /\ result' = Append(result,
                  Function(definition,
                           IF file.ok
                           THEN extract_source(file.lines, definition.start,
                                               RangeEnd(definition))
                           ELSE <<>>))
           /\ j' = j + 1
    /\ UNCHANGED <<pc, outcome, symbol_name, results, k, definitions, paths,
                   queried, functions, view, raw, path, line,
                   selected_function, elements, position, root, line_number>>

\* lines 224-245: one pass of the loop; extract_source reads the file
\* through get_file, whose failure nothing catches
DefinitionToResult ==
    /\ pc = "definitions_to_results"
    /\ j <= Len(definitions)
    /\ LET definition == definitions[j]
           file == raw[definition.path]
       IN  /\ reads' = Append(reads, [path |-> definition.path,
                                      start |-> definition.start,
                                      end |-> RangeEnd(definition)])
           /\ IF file.ok
              THEN /\ result' = Append(result,
                          Function(definition,
                                   extract_source(file.lines, definition.start,
                                                  RangeEnd(definition))))
                   /\ j' = j + 1
                   /\ UNCHANGED <<pc, outcome>>
              ELSE /\ pc' = "done"
                   /\ outcome' = "raised"
                   /\ UNCHANGED <<result, j>>
    /\ UNCHANGED <<symbol_name, results, k, definitions, paths, queried,
                   functions, view, raw, path, line, selected_function,
                   elements, position, root, line_number>>

\* line 247
ResultsReturn ==
    /\ pc = "definitions_to_results"
    /\ j > Len(definitions)
    /\ pc' = "done"
    /\ outcome' = "returned"
    /\ UNCHANGED <<symbol_name, results, k, definitions, paths, queried,
                   functions, view, raw, path, line, selected_function, j,
                   result, reads, elements, position, root, line_number>>

(***************************************************************************)
(* get_line_number, lines 28-37, one call per step                         *)
(***************************************************************************)
\* lines 29-32 on an empty iterable: next() or the unpacking raises
LineNumberRaise ==
    /\ pc = "get_line_number"
    /\ elements = <<>>
    /\ pc' = "done"
    /\ outcome' = "raised"
    /\ UNCHANGED <<symbol_name, results, k, definitions, paths, queried,
                   functions, view, raw, path, line, selected_function, j,
                   result, reads, elements, position, root, line_number>>

\* the recursive call made on the first child whatever the position
LineNumberRecurse_FirstChild ==
    /\ pc = "get_line_number"
    /\ elements # <<>>
    /\ LET element == elements[1]
       IN  /\ (IF position = "start" THEN elements[1]
               ELSE elements[Len(elements)]).sym # NoSym
           /\ elements' = element.kids
    /\ UNCHANGED <<pc, outcome, symbol_name, results, k, definitions, paths,
                   queried, functions, view, raw, path, line,
                   selected_function, j, result, reads, position, root,
                   line_number>>

\* lines 34-35: the recursive call on the children of the element
LineNumberRecurse ==
    /\ pc = "get_line_number"
    /\ elements # <<>>
    /\ LET element == IF position = "start" THEN elements[1]
                      ELSE elements[Len(elements)]
       IN  /\ element.sym # NoSym
           /\ elements' = element.kids
    /\ UNCHANGED <<pc, outcome, symbol_name, results, k, definitions, paths,
                   queried, functions, view, raw, path, line,
                   selected_function, j, result, reads, position, root,
                   line_number>>

\* line 37
LineNumberReturn ==
    /\ pc = "get_line_number"
    /\ elements # <<>>
    /\ LET element == IF position = "start" THEN elements[1]
                      ELSE elements[Len(elements)]
       IN  /\ element.sym = NoSym
           /\ line_number' = element.id
    /\ pc' = "done"
    /\ outcome' = "returned"
    /\ UNCHANGED <<symbol_name, results, k, definitions, paths, queried,
                   functions, view, raw, path, line, selected_function, j,
                   result, reads, elements, position, root>>

(***************************************************************************)
(* Specifications                                                          *)
(***************************************************************************)
NextName ==
    \/ SearchValue
    \/ SearchPaths
    \/ SearchGetFunctions
    \/ SearchReturn
    \/ DefinitionToResult
    \/ ResultsReturn

NextLine ==
    \/ FindGetFunctions
    \/ FindLoop
    \/ ByLineReturn
    \/ DefinitionToResult
    \/ ResultsReturn

NextTree ==
    \/ LineNumberRaise
    \/ LineNumberRecurse
    \/ LineNumberReturn

Next == NextName \/ NextLine

Spec == Init /\ [][Next]_vars
SpecSearch == InitSearch /\ [][NextName]_vars
SpecName == InitName /\ [][NextName]_vars
SpecLine == InitLine /\ [][NextLine]_vars
\* the calls are synchronous: a call that can take a step takes it
SpecTree == InitTree /\ [][NextTree]_vars /\ WF_vars(NextTree)

(***************************************************************************)
(* Properties                                                              *)
(***************************************************************************)
\* the hits the loops of search have visited so far
Seen == {Visited(results)[n] : n \in 1..k}

\* search is still holding its accepted hits in definitions
InSearch == pc \in {"search", "search_get_functions"}

\* the offsets at which pat occurs in s
Occurrences(s, pat) == {i \in 0..Len(s) : MatchAt(s, pat, i)}

\* the offsets at which sym occurs in s as a whole word
WordOccurrences(s, sym) ==
    {i \in Occurrences(s, sym) :
        /\ ~(i > 0 /\ s[i] \in WordChars)
        /\ ~(i + Len(sym) < Len(s) /\ s[i + Len(sym) + 1] \in WordChars)}

Least(S) == CHOOSE i \in S : \A i2 \in S : i <= i2

\* some occurrence of pat lies after the first whole-word occurrence of sym
SomeAfterWord(s, sym, pat) ==
    /\ WordOccurrences(s, sym) # {}
    /\ \E i \in Occurrences(s, pat) : i > Least(WordOccurrences(s, sym))

\* the first occurrence of pat lies after the first whole-word occurrence of sym
FirstAfterWord(s, sym, pat) ==
    /\ WordOccurrences(s, sym) # {}
    /\ Occurrences(s, pat) # {}
    /\ Least(Occurrences(s, pat)) > Least(WordOccurrences(s, sym))

\* a hit of a bucket search considers, on a path of the extension group
\* exts, whose line contains the symbol
CandidateOn(h, exts) ==
    /\ IsDefinitionsBucket(h.sub_type, symbol_name)
    /\ HasExt(h.path, exts)
    /\ Contains(h.line, symbol_name)

lit_fn_sp == <<"f", "n", " ">>

\* C2: a Rust hit whose line contains the symbol is accepted exactly when
\* the line contains "fn " followed by the symbol, or a "|" after the first
\* whole-word occurrence of the symbol.
C2_RustAccepted ==
    InSearch =>
        \A h \in Seen :
            CandidateOn(h, ExtRust) =>
                (h \in Range(definitions)
                 <=> \/ Contains(h.line, lit_fn_sp \o symbol_name)
                     \/ SomeAfterWord(h.line, symbol_name, lit_pipe))

\* the key of the Definitions bucket of exactly the symbol sym
ExactKey(sym) == lit_Definitions \o <<" ", "(">> \o sym \o lit_close

\* C3 as stated: an accepted hit comes from the Definitions bucket of
\* exactly the queried symbol.
C3_ExactBucket ==
    InSearch =>
        \A n \in 1..Len(definitions) :
            definitions[n].sub_type = ExactKey(symbol_name)

\* C3, amended: an accepted hit comes from a bucket whose key starts with
\* "Definitions" and ends with the queried symbol followed by ")"; no other
\* hit contributes a path.
C3_SuffixBucket ==
    InSearch =>
        /\ \A n \in 1..Len(definitions) :
              /\ StartsWith(definitions[n].sub_type, lit_Definitions)
              /\ EndsWith(definitions[n].sub_type, symbol_name \o lit_close)
        /\ \A n \in 1..Len(paths) :
              \E m \in 1..Len(definitions) : definitions[m].path = paths[n]

\* C3 witness: a hit of the bucket of a longer symbol was accepted.
C3_Witness ==
    /\ InSearch
    /\ symbol_name = sym_foo
    /\ \E n \in 1..Len(definitions) : definitions[n].sub_type = key_barfoo

\* the example of C7 has been decided: the hit on line_handler, in a
\* Javascript file, in the bucket of the queried symbol
HandlerSeen ==
    \E h \in Seen : CandidateOn(h, ExtJavascript) /\ h.line = line_handler

\* C7 as stated: a Javascript hit whose line contains the symbol is
\* accepted exactly when the line contains the symbol followed by "(", or
\* "function " followed by the symbol, or "function" or "=>" somewhere after
\* the first whole-word occurrence of the symbol.
C7_SomeOccurrenceAfter ==
    InSearch =>
        \A h \in Seen :
            CandidateOn(h, ExtJavascript) =>
                (h \in Range(definitions)
                 <=> \/ Contains(h.line, symbol_name \o lit_paren)
                     \/ Contains(h.line, lit_function_sp \o symbol_name)
                     \/ SomeAfterWord(h.line, symbol_name, lit_function)
                     \/ SomeAfterWord(h.line, symbol_name, lit_arrow))

\* C7, amended: a Javascript hit whose line contains the symbol is accepted
\* exactly when the line contains the symbol followed by "(", or "function "
\* followed by the symbol, or the first "function" or the first "=>" of the
\* line lies after the first whole-word occurrence of the symbol; on
\* 'const handler = x => x.foo', handler is accepted and foo is rejected.
C7_FirstOccurrenceAfter ==
    InSearch =>
        \A h \in Seen :
            CandidateOn(h, ExtJavascript) =>
                /\ h \in Range(definitions)
                   <=> \/ Contains(h.line, symbol_name \o lit_paren)
                       \/ Contains(h.line, lit_function_sp \o symbol_name)
                       \/ FirstAfterWord(h.line, symbol_name, lit_function)
                       \/ FirstAfterWord(h.line, symbol_name, lit_arrow)
                /\ h.line = line_handler =>
                      (h \in Range(definitions) <=> symbol_name = sym_handler)

\* C7 witness: handler was accepted on 'const handler = x => x.foo'.
C7_Witness ==
    /\ InSearch
    /\ HandlerSeen
    /\ symbol_name = sym_handler
    /\ \E n \in 1..Len(definitions) : definitions[n].line = line_handler


\* find_function_for_line got the scopes of the file and its loop is over
LoopOver ==
    /\ view[path].status \in {200, 404}
    /\ \/ pc = "find_loop" /\ j > Len(functions)
       \/ pc \in {"definitions_to_results", "done"}

\* the positions in functions of the scopes that contain the line
Containing ==
    {n \in 1..Len(functions) :
        functions[n].start <= line /\ line <= functions[n].end}

\* C1: find_function_for_line returns a scope that contains the line and
\* whose start is the largest among the containing scopes, the first of the
\* list among those of that start; it returns none when no scope contains
\* the line, and get_function_by_line then returns an empty list.
C1_EnclosingScope ==
    LoopOver =>
        /\ Containing = {} =>
              /\ selected_function = NoFunction
              /\ pc = "done" => outcome = "returned" /\ result = <<>>
        /\ Containing # {} =>
              \E n \in Containing :
                 /\ selected_function = functions[n]
                 /\ \A m \in Containing :
                       /\ functions[m].start <= functions[n].start
                       /\ functions[m].start = functions[n].start => n <= m

\* C1 witness: two different containing scopes share the largest start and
\* the loop has kept the first.
C1_Witness ==
    /\ LoopOver
    /\ \E n \in Containing, m \in Containing :
          /\ n < m
          /\ functions[n] # functions[m]
          /\ functions[n].start = functions[m].start
          /\ \A i \in Containing : functions[i].start <= functions[n].start
          /\ selected_function = functions[n]

\* C8: when the file view answers 404, get_functions returns no scope and
\* does not raise, find_function_for_line returns none, and
\* get_function_by_line returns an empty list without a call of the reader.
C8_NotFoundView ==
    (pc # "find_function_for_line" /\ view[path].status = 404) =>
        /\ outcome # "raised"
        /\ functions = <<>>
        /\ selected_function = NoFunction
        /\ reads = <<>>
        /\ result = <<>>
        /\ pc = "done" => outcome = "returned"

\* C8 witness: get_function_by_line has returned on a 404 view.
C8_Witness ==
    /\ view[path].status = 404
    /\ queried = <<path>>
    /\ pc = "done"
    /\ outcome = "returned"

\* a call of the reader failed
ReaderFailed == \E n \in 1..Len(reads) : ~raw[reads[n].path].ok

\* C9: when the reader fails for a definition, the call ends in failure;
\* a call that returns has read every one of its definitions, so it returns
\* neither an empty list in place of a found scope nor a partial list nor a
\* Function without its source.
C9_ReaderFailurePropagates ==
    /\ ReaderFailed => pc = "done" /\ outcome = "raised"
    /\ outcome = "returned" =>
          /\ Len(result) = Len(definitions)
          /\ \A n \in 1..Len(definitions) : raw[definitions[n].path].ok
    /\ (outcome = "returned" /\ selected_function # NoFunction) =>
          Len(result) = 1

\* C9 witness: get_function_by_line found a scope and the reader failed.
C9_Witness ==
    /\ ReaderFailed
    /\ outcome = "raised"
    /\ selected_function # NoFunction

\* the paths of the hits search accepts in the response
AcceptedPaths ==
    {h.path : h \in {x \in Range(Visited(results)) :
                        AppendsDefinition(symbol_name, x)}}

\* the name and start of the scopes of p whose data-nesting-sym contains
\* the searched name, in document order
ExpectedScopes(p) ==
    IF view[p].status # 200 THEN <<>>
    ELSE LET es == SelectSeq(Descendants(view[p].file),
                             LAMBDA e : /\ e.sym # NoSym
                                        /\ Contains(e.sym, symbol_name))
         IN  [n \in 1..Len(es) |->
                 [name |-> Tail(es[n].sym),
                  start |-> get_line_number(es[n].kids, "start")]]

\* the name and start of the Functions returned for p
ReturnedScopes(p) ==
    LET fs == SelectSeq(result, LAMBDA f : f.path = p)
    IN  [n \in 1..Len(fs) |-> [name |-> fs[n].name, start |-> fs[n].start]]

\* search has requested the view of every path it wanted
ViewsRequested ==
    \/ pc = "definitions_to_results"
    \/ pc = "done" /\ (outcome = "returned" \/ reads # <<>>)

\* C4: the file views search requests are those of the paths with an
\* accepted hit, each once and no other; get_function_by_name returns one
\* Function per scope of those files whose name contains the searched name,
\* and no other.
C4_PathsAndFunctions ==
    LET accepted == AcceptedPaths
    IN  /\ Range(queried) \subseteq accepted
        /\ Len(queried) = Cardinality(Range(queried))
        /\ ViewsRequested => Range(queried) = accepted
        /\ (pc = "done" /\ outcome = "returned") =>
              \A p \in Paths :
                 ReturnedScopes(p) =
                    IF p \in accepted THEN ExpectedScopes(p) ELSE <<>>

\* C4 witness: a call returned Functions for the one path it queried, after
\* search visited two hits, one of them rejected or both of the same path.
C4_Witness ==
    /\ pc = "done"
    /\ outcome = "returned"
    /\ result # <<>>
    /\ Len(queried) = 1
    /\ Len(Visited(results)) = 2
    /\ \/ \E h \in Range(Visited(results)) : ~AppendsDefinition(symbol_name, h)
       \/ Visited(results)[1].path = Visited(results)[2].path

\* the number of lines of a text
RECURSIVE CountLines(_)
CountLines(text) ==
    IF text = <<>> THEN 0
    ELSE IF Len(text) = 1 THEN 1
    ELSE (IF Head(text) = "\n" THEN 1 ELSE 0) + CountLines(Tail(text))

\* C5: the sourceText of a Function resolved by name for a scope [s, e],
\* s <= e, is the file's lines s to e joined by newlines, e - s + 1 lines.
C5_SourceIsScopeLines ==
    \A n \in 1..Len(result) :
        LET d == definitions[n]
        IN  d.start <= d.end =>
               /\ result[n].source =
                     Join(SubSeq(raw[d.path].lines, d.start, d.end))
               /\ CountLines(result[n].source) = d.end - d.start + 1

\* C6: the reader is handed end + 1 when the end of the scope differs from
\* its start and end when they are equal, so that a one-line scope has an
\* empty sourceText and a scope [s, e], s < e, one of e - s + 1 lines.
C6_RangeEnd ==
    /\ \A n \in 1..Len(reads) :
          /\ reads[n].path = definitions[n].path
          /\ reads[n].start = definitions[n].start
          /\ definitions[n].end # definitions[n].start =>
                reads[n].end = definitions[n].end + 1
          /\ definitions[n].end = definitions[n].start =>
                reads[n].end = definitions[n].end
    /\ \A n \in 1..Len(result) :
          /\ definitions[n].end = definitions[n].start =>
                result[n].source = <<>>
          /\ definitions[n].start < definitions[n].end =>
                CountLines(result[n].source) =
                    definitions[n].end - definitions[n].start + 1

\* C6 witness: a one-line scope and a two-line scope were both read.
C6_Witness ==
    /\ \E n \in 1..Len(result) :
          definitions[n].end = definitions[n].start /\ result[n].source = <<>>
    /\ \E n \in 1..Len(result) :
          /\ definitions[n].end = definitions[n].start + 1
          /\ CountLines(result[n].source) = 2

\* every named-scope element of els has a child, and so has their parent
RECURSIVE EveryScopeHasChild(_)
EveryScopeHasChild(els) ==
    /\ els # <<>>
    /\ \A n \in 1..Len(els) :
          els[n].sym # NoSym => EveryScopeHasChild(els[n].kids)

\* the element reached from els by taking the first (last) child and
\* descending while that child is a named-scope marker
RECURSIVE Reached(_, _)
Reached(els, pos) ==
    LET child == IF pos = "start" THEN Head(els) ELSE els[Len(els)]
    IN  IF child.sym = NoSym THEN child ELSE Reached(child.kids, pos)

\* get_line_number has returned
LineNumberReturned == pc = "done" /\ outcome = "returned"

\* the first (last) child of the scope whose children are root
Boundary == IF position = "start" THEN Head(root) ELSE root[Len(root)]

\* C10: on a tree whose named scopes all have a child, get_line_number
\* terminates; it returns the line of the element reached by descending
\* into the first (last) child while it is a named-scope marker, so a scope
\* whose first (last) child is a scope gets the start (end) of that scope.
C10_LineNumber ==
    /\ (pc = "get_line_number" /\ EveryScopeHasChild(root)) ~> LineNumberReturned
    /\ [](LineNumberReturned =>
             /\ line_number = Reached(root, position).id
             /\ Boundary.sym # NoSym =>
                   line_number = ScopeOf(Boundary, <<>>)[position])

\* C10 witness: the line returned was found two scopes below the first or
\* last child.
C10_Witness ==
    /\ LineNumberReturned
    /\ EveryScopeHasChild(root)
    /\ Boundary.sym # NoSym
    /\ elements # Boundary.kids

====
